---- MODULE Spec2Model ----
(***************************************************************************)
(* Model of src/main.c: ten first-order Delta-Sigma modulators (MSP430),   *)
(* the four colour-envelope sequencers that drive their requested levels,  *)
(* the main loop that sequences them on the watchdog tick, and the         *)
(* watchdog ISR that copies outBits to the ports.                          *)
(*                                                                         *)
(* The specifications share the definitions:                               *)
(*   Spec     - statement-level main loop; the ISR may be serviced at any  *)
(*              statement boundary (interrupts stay enabled); the horizon  *)
(*              is MaxEnvCalls envelope updates.                           *)
(*   SpecLoop - one action per function call of main(); the ISR is only    *)
(*              serviced while main() waits in LPM0 (the timer period is   *)
(*              longer than one loop iteration); complete envelope cycle.  *)
(*   SpecMod  - the modulator step applied to one channel with a constant  *)
(*              requested level, for every start accumulator and level.    *)
(*   SpecCnt  - the counter statement of the main loop, one step per loop  *)
(*              iteration, from every 16-bit value the uninitialised       *)
(*              intCnt can hold.                                           *)
(***************************************************************************)
EXTENDS Integers, Sequences, FiniteSets

\* ------------------------------------------------------------------------
\* Program constants (#define)
\* ------------------------------------------------------------------------
P1_COMM_ANOD == 63
P2_COMM_ANOD == 0
N_CH == 10
LOOP_SPEED == 6

MAX_CH_0_2 == 200
MAX_CH_3_5 == 200
MAX_CH_6_7 == 100
MAX_CH_8_9 == 150

STEPS_CH_0_2 == 100
INC_CH_0_2 == MAX_CH_0_2 \div STEPS_CH_0_2
STEPS_CH_3_5 == 100
INC_CH_3_5 == MAX_CH_3_5 \div STEPS_CH_3_5
STEPS_CH_6_7 == 50
INC_CH_6_7 == MAX_CH_6_7 \div STEPS_CH_6_7
STEPS_CH_8_9 == 150
INC_CH_8_9 == MAX_CH_8_9 \div STEPS_CH_8_9

\* Widths of the C types on the MSP430 (int: 16 bits, char: 8 bits)
UINT_BITS == 16
UCHAR_BITS == 8

\* ------------------------------------------------------------------------
\* Bounds of the model
\* ------------------------------------------------------------------------
\* Spec stops waking main() once calc_CH_6_TO_7 has run this many times.
MaxEnvCalls == 2
\* SpecMod: windows of max[n] .. max[n] + MaxExtraWindow steps.
MaxExtraWindow == 1

\* ------------------------------------------------------------------------
\* Machine arithmetic
\* ------------------------------------------------------------------------
Pow2(k) == 2 ^ k
UINT_MOD == Pow2(UINT_BITS)
UCHAR_MOD == Pow2(UCHAR_BITS)

\* bit i of the unsigned value x
Bit(x, i) == (x \div Pow2(i)) % 2

\* bitwise exclusive or of two 8-bit values
Xor8(x, y) ==
    LET b(i) == (Bit(x, i) + Bit(y, i)) % 2
    IN  b(0) + 2 * b(1) + 4 * b(2) + 8 * b(3)
          + 16 * b(4) + 32 * b(5) + 64 * b(6) + 128 * b(7)

\* unsigned char: req[n] += inc, req[n] -= inc
UCharAdd(r, inc) == (r + inc) % UCHAR_MOD
UCharSub(r, inc) == (r - inc + UCHAR_MOD) % UCHAR_MOD

Channels == 0 .. (N_CH - 1)

VARIABLES
    max, req, sum,          \* the three global arrays
    outBits,                \* unsigned int outBits
    stCnt_0_2, stCnt_3_5,   \* the static stCnt of each calc_CH_x_TO_y()
    stCnt_6_7, stCnt_8_9,
    intCnt,                 \* main()'s local WDT interrupt counter
    pc, n,                  \* position of main(), loop index of calc_output_bits()
    P1OUT, P2OUT,           \* port registers written by the ISR
    \* history variables (not program state)
    tick,                   \* wake-ups of main() so far, modulo 2^(LOOP_SPEED+1)
    sinceEnv,               \* wake-ups since the last envelope update, -1 before the first
    gap,                    \* wake-ups between the last two envelope updates, 0 before the second
    envCalls,               \* calls of each calc_CH_x_TO_y() in this loop iteration
    bits,                   \* bit computed for each channel in the current pass
    reqUsed,                \* req[n] as read by the current pass
    published,              \* outBits at the end of the last complete pass
    isrSeen, isrPub,        \* outBits as read by the last ISR, and published at that time
    stepCnt,                \* steps of each channel since the last wake-up of main()
    owed,                   \* per channel: levels added so far minus max[n] per 0-bit emitted
    probe                   \* SpecMod: the channel under test and its window

progVars == <<max, req, sum, outBits, stCnt_0_2, stCnt_3_5, stCnt_6_7, stCnt_8_9,
              intCnt, pc, n, P1OUT, P2OUT>>
histVars == <<tick, sinceEnv, gap, envCalls, bits, reqUsed, published,
              isrSeen, isrPub, stepCnt, owed, probe>>
vars == <<progVars, histVars>>

\* ------------------------------------------------------------------------
\* init_all_CH_arrays()
\* ------------------------------------------------------------------------
init_max ==
    [c \in Channels |->
        IF c <= 2 THEN MAX_CH_0_2
        ELSE IF c <= 5 THEN MAX_CH_3_5
        ELSE IF c <= 7 THEN MAX_CH_6_7
        ELSE MAX_CH_8_9]

init_req ==
    [c \in Channels |->
        CASE c = 0 -> MAX_CH_0_2 % UCHAR_MOD
          [] c = 1 -> 0
          [] c = 2 -> 0
          [] c = 3 -> 0
          [] c = 4 -> MAX_CH_3_5 % UCHAR_MOD
          [] c = 5 -> MAX_CH_3_5 % UCHAR_MOD
          [] c = 6 -> 0
          [] c = 7 -> 0
          [] c = 8 -> MAX_CH_8_9 % UCHAR_MOD
          [] c = 9 -> MAX_CH_8_9 % UCHAR_MOD]

\* initial values of the static phase counters
init_stCnt_0_2 == 0
init_stCnt_3_5 == 3 * STEPS_CH_3_5
init_stCnt_6_7 == 0
init_stCnt_8_9 == 2 * STEPS_CH_8_9

\* ------------------------------------------------------------------------
\* Envelope sequencers: the chained range tests of calc_CH_x_TO_y()
\* ------------------------------------------------------------------------
\* variant with the upper limit included (stCnt <= (k+1)*steps)
InSegInclusive(st, k, steps) == (st >= k * steps) /\ (st <= (k + 1) * steps)

\* stCnt is in segment k of length steps
InSeg(st, k, steps) == (st >= k * steps) /\ (st < (k + 1) * steps)

\* variant wrapping one call late (++stCnt > segs*steps)
NextStCntLate(st, segs, steps) == IF st + 1 > segs * steps THEN 0 ELSE st + 1

\* if (++stCnt >= segs*steps) stCnt = 0;
NextStCnt(st, segs, steps) == IF st + 1 >= segs * steps THEN 0 ELSE st + 1

\* the six tests of the RGB groups; r, g, b are the channel numbers
RGBEnvelope(rq, st, r, g, b, steps, inc) ==
    LET q1 == IF InSeg(st, 0, steps) THEN [rq EXCEPT ![g] = UCharAdd(rq[g], inc)] ELSE rq
        q2 == IF InSeg(st, 1, steps) THEN [q1 EXCEPT ![r] = UCharSub(q1[r], inc)] ELSE q1
        q3 == IF InSeg(st, 2, steps) THEN [q2 EXCEPT ![b] = UCharAdd(q2[b], inc)] ELSE q2
        q4 == IF InSeg(st, 3, steps) THEN [q3 EXCEPT ![g] = UCharSub(q3[g], inc)] ELSE q3
        q5 == IF InSeg(st, 4, steps) THEN [q4 EXCEPT ![r] = UCharAdd(q4[r], inc)] ELSE q4
        q6 == IF InSeg(st, 5, steps) THEN [q5 EXCEPT ![b] = UCharSub(q5[b], inc)] ELSE q5
    IN  q6

\* the four tests of the RG groups; r, g are the channel numbers
RGEnvelope(rq, st, r, g, steps, inc) ==
    LET q1 == IF InSeg(st, 0, steps) THEN [rq EXCEPT ![g] = UCharAdd(rq[g], inc)] ELSE rq
        q2 == IF InSeg(st, 1, steps) THEN [q1 EXCEPT ![r] = UCharAdd(q1[r], inc)] ELSE q1
        q3 == IF InSeg(st, 2, steps) THEN [q2 EXCEPT ![g] = UCharSub(q2[g], inc)] ELSE q2
        q4 == IF InSeg(st, 3, steps) THEN [q3 EXCEPT ![r] = UCharSub(q3[r], inc)] ELSE q3
    IN  q4

\* calc_CH_3_TO_5() with the red channel of calc_CH_0_TO_2() left in place
\* (req[0] where req[3] is meant)
Req_3_TO_5_Red0(rq, st) == RGBEnvelope(rq, st, 0, 4, 5, STEPS_CH_3_5, INC_CH_3_5)

Req_0_TO_2(rq, st) == RGBEnvelope(rq, st, 0, 1, 2, STEPS_CH_0_2, INC_CH_0_2)
Req_3_TO_5(rq, st) == RGBEnvelope(rq, st, 3, 4, 5, STEPS_CH_3_5, INC_CH_3_5)
Req_6_TO_7(rq, st) == RGEnvelope(rq, st, 6, 7, STEPS_CH_6_7, INC_CH_6_7)
Req_8_TO_9(rq, st) == RGEnvelope(rq, st, 8, 9, STEPS_CH_8_9, INC_CH_8_9)

StCnt_0_TO_2(st) == NextStCnt(st, 6, STEPS_CH_0_2)
StCnt_3_TO_5(st) == NextStCnt(st, 6, STEPS_CH_3_5)
StCnt_6_TO_7(st) == NextStCnt(st, 4, STEPS_CH_6_7)
StCnt_8_TO_9(st) == NextStCnt(st, 4, STEPS_CH_8_9)

\* ------------------------------------------------------------------------
\* Modulator: the body of the loop of calc_output_bits()
\* ------------------------------------------------------------------------
\* sum[n] += req[n];
SumAdd(s, r) == (s + r) % UINT_MOD
\* if (sum[n] < max[n]) outBits++;  -- the bit put into the LSB
ModBit(s, r, m) == IF SumAdd(s, r) < m THEN 1 ELSE 0
\* variant comparing with <= (sum[n] <= max[n])
ModSumLe(s, r, m) ==
    IF SumAdd(s, r) <= m THEN SumAdd(s, r)
    ELSE (SumAdd(s, r) - m + UINT_MOD) % UINT_MOD

\* else sum[n] -= max[n];
ModSum(s, r, m) ==
    IF SumAdd(s, r) < m THEN SumAdd(s, r)
    ELSE (SumAdd(s, r) - m + UINT_MOD) % UINT_MOD
\* variant incrementing before the shift
ShiftInAfter(ob, b) == (2 * (ob + b)) % UINT_MOD

\* outBits <<= 1; ... outBits++;
ShiftIn(ob, b) == (((2 * ob) % UINT_MOD) + b) % UINT_MOD

\* the order in which the loop visits the channels: n = N_CH-1 down to 0
FirstN == N_CH - 1
NextN(k) == k - 1

\* the loop body with the bit test reading the accumulator of the channel
\* above (sum[n + 1] < max[n])
LoopBodyNeighbour(st, k) ==
    [n       |-> NextN(k),
     sum     |-> [st.sum EXCEPT ![k] = ModSum(st.sum[k], req[k], max[k])],
     outBits |-> ShiftIn(st.outBits,
                         ModBit(st.sum[(k + 1) % N_CH], req[k], max[k])),
     bits    |-> [st.bits EXCEPT ![k] =
                    ModBit(st.sum[(k + 1) % N_CH], req[k], max[k])],
     reqUsed |-> [st.reqUsed EXCEPT ![k] = req[k]],
     stepCnt |-> [st.stepCnt EXCEPT ![k] = @ + 1],
     owed    |-> [st.owed EXCEPT ![k] =
                    @ + req[k] - (1 - ModBit(st.sum[k], req[k], max[k])) * max[k]]]


\* one iteration of the loop for channel k, on the record
\* [n, sum, outBits, bits, reqUsed, stepCnt, owed]; --n ends the iteration
LoopBody(st, k) ==
    [n       |-> NextN(k),
     sum     |-> [st.sum EXCEPT ![k] = ModSum(st.sum[k], req[k], max[k])],
     outBits |-> ShiftIn(st.outBits, ModBit(st.sum[k], req[k], max[k])),
     bits    |-> [st.bits EXCEPT ![k] = ModBit(st.sum[k], req[k], max[k])],
     reqUsed |-> [st.reqUsed EXCEPT ![k] = req[k]],
     stepCnt |-> [st.stepCnt EXCEPT ![k] = @ + 1],
     owed    |-> [st.owed EXCEPT ![k] =
                    @ + req[k] - (1 - ModBit(st.sum[k], req[k], max[k])) * max[k]]]

\* the iterations for channels k, NextN(k), ... until the index leaves 0..N_CH-1
RECURSIVE LoopFrom(_, _)
LoopFrom(st, k) ==
    IF k \in Channels THEN LoopFrom(LoopBody(st, k), NextN(k)) ELSE st

\* ------------------------------------------------------------------------
\* main(): the order of the statements of the loop body
\* ------------------------------------------------------------------------
\* ++intCnt (16-bit two's complement, kept as its unsigned bit pattern)
IncIntCnt(c) == (c + 1) % UINT_MOD
\* variant testing the next bit (1 << (LOOP_SPEED + 1))
EnvelopeDueNextBit(c) == Bit(IncIntCnt(c), LOOP_SPEED + 1) = 1

\* ++intCnt & (1 << LOOP_SPEED)
EnvelopeDue(c) == Bit(IncIntCnt(c), LOOP_SPEED) = 1

\* variant without the reset intCnt = 0
NextIntCntNoReset(c) == IncIntCnt(c)

\* if (++intCnt & (1 << LOOP_SPEED)) { intCnt = 0; ... }
NextIntCnt(c) == IF EnvelopeDue(c) THEN 0 ELSE IncIntCnt(c)

\* variant calling calc_output_bits() before the envelope functions
PcAfterOutFirst(p, due) ==
    CASE p = "test"  -> "out"
      [] p = "out"   -> IF sinceEnv = 0 THEN "env02" ELSE "lpm0"
      [] p = "env02" -> "env35"
      [] p = "env35" -> "env67"
      [] p = "env67" -> "env89"
      [] p = "env89" -> "lpm0"

\* the order with calc_output_bits() in an else branch of the test: no pass
\* on the ticks that update the envelopes
PcAfterElse(p, due) ==
    CASE p = "test"  -> IF due THEN "env02" ELSE "out"
      [] p = "env02" -> "env35"
      [] p = "env35" -> "env67"
      [] p = "env67" -> "env89"
      [] p = "env89" -> "lpm0"
      [] p = "out"   -> "lpm0"


\* the statement that follows position p of the loop body
PcAfter(p, due) ==
    CASE p = "test"  -> IF due THEN "env02" ELSE "out"
      [] p = "env02" -> "env35"
      [] p = "env35" -> "env67"
      [] p = "env67" -> "env89"
      [] p = "env89" -> "out"
      [] p = "out"   -> "lpm0"

\* values the uninitialised local intCnt may hold when the loop is entered
InitIntCnt == {0, Pow2(LOOP_SPEED) - 1, Pow2(LOOP_SPEED + 1) - 1,
               Pow2(UINT_BITS - 1) - 1, UINT_MOD - 1}

NoBits == [c \in Channels |-> 0]
NoCalls == <<0, 0, 0, 0>>
NoProbe == [ch |-> 0, a0 |-> 0, r |-> 0, w |-> 0, ones |-> 0, a |-> 0]

\* state when main() first reaches LPM0
InitProg ==
    /\ max = init_max
    /\ req = init_req
    /\ sum = [c \in Channels |-> 0]
    /\ outBits = 0
    /\ stCnt_0_2 = init_stCnt_0_2
    /\ stCnt_3_5 = init_stCnt_3_5
    /\ stCnt_6_7 = init_stCnt_6_7
    /\ stCnt_8_9 = init_stCnt_8_9
    /\ pc = "lpm0"
    /\ n = -1
    /\ P1OUT = 0
    /\ P2OUT = 0

InitHist ==
    /\ tick = 0
    /\ sinceEnv = -1
    /\ gap = 0
    /\ envCalls = NoCalls
    /\ bits = NoBits
    /\ reqUsed = init_req
    /\ published = 0
    /\ isrSeen = 0
    /\ isrPub = 0
    /\ stepCnt = NoBits
    /\ owed = NoBits

Init ==
    /\ InitProg
    /\ InitHist
    /\ probe = NoProbe
    /\ intCnt \in InitIntCnt

\* ------------------------------------------------------------------------
\* Watchdog_Timer ISR
\* ------------------------------------------------------------------------
\* P1OUT = outBits ^ P1_COMM_ANOD (8-bit register)
PortP1(ob) == Xor8(ob % UCHAR_MOD, P1_COMM_ANOD)
\* P2OUT = (outBits >> 2) ^ P2_COMM_ANOD (8-bit register)
PortP2(ob) == Xor8((ob \div 4) % UCHAR_MOD, P2_COMM_ANOD)

TickWrap == Pow2(LOOP_SPEED + 1)

\* the ISR body; _BIC_SR_IRQ(LPM0_bits) resumes main() when it waits in LPM0
ISRBody ==
    /\ P1OUT' = PortP1(outBits)
    /\ P2OUT' = PortP2(outBits)
    /\ isrSeen' = outBits
    /\ isrPub' = published
    /\ IF pc = "lpm0"
         THEN /\ pc' = "test"
              /\ tick' = (tick + 1) % TickWrap
              /\ sinceEnv' = IF sinceEnv < 0 THEN sinceEnv ELSE sinceEnv + 1
              /\ stepCnt' = NoBits
         ELSE UNCHANGED <<pc, tick, sinceEnv, stepCnt>>
    /\ UNCHANGED <<max, req, sum, outBits, stCnt_0_2, stCnt_3_5, stCnt_6_7,
                   stCnt_8_9, intCnt, n, gap, envCalls, bits, reqUsed,
                   published, owed, probe>>

\* Spec: serviced at any statement boundary
Watchdog_Timer ==
    /\ (pc = "lpm0") => (stCnt_6_7 < MaxEnvCalls)
    /\ ISRBody

\* ------------------------------------------------------------------------
\* main() loop
\* ------------------------------------------------------------------------
\* if (++intCnt & (1 << LOOP_SPEED)) { intCnt = 0; ...
MainTest ==
    /\ pc = "test"
    /\ intCnt' = NextIntCnt(intCnt)
    /\ pc' = PcAfter("test", EnvelopeDue(intCnt))
    /\ n' = IF PcAfter("test", EnvelopeDue(intCnt)) = "out" THEN FirstN ELSE n
    /\ envCalls' = NoCalls
    /\ IF EnvelopeDue(intCnt)
         THEN /\ gap' = IF sinceEnv < 0 THEN gap ELSE sinceEnv
              /\ sinceEnv' = 0
         ELSE UNCHANGED <<gap, sinceEnv>>
    /\ UNCHANGED <<max, req, sum, outBits, stCnt_0_2, stCnt_3_5, stCnt_6_7,
                   stCnt_8_9, P1OUT, P2OUT, tick, bits, reqUsed, published,
                   isrSeen, isrPub, stepCnt, owed, probe>>

\* frame of a calc_CH_x_TO_y() call made from position p
EnvFrame(p, g) ==
    /\ pc = p
    /\ pc' = PcAfter(p, TRUE)
    /\ n' = IF PcAfter(p, TRUE) = "out" THEN FirstN ELSE n
    /\ envCalls' = [envCalls EXCEPT ![g] = @ + 1]
    /\ UNCHANGED <<max, sum, outBits, intCnt, P1OUT, P2OUT, tick, sinceEnv, gap,
                   bits, reqUsed, published, isrSeen, isrPub, stepCnt, owed,
                   probe>>

calc_CH_0_TO_2 ==
    /\ EnvFrame("env02", 1)
    /\ req' = Req_0_TO_2(req, stCnt_0_2)
    /\ stCnt_0_2' = StCnt_0_TO_2(stCnt_0_2)
    /\ UNCHANGED <<stCnt_3_5, stCnt_6_7, stCnt_8_9>>

calc_CH_3_TO_5 ==
    /\ EnvFrame("env35", 2)
    /\ req' = Req_3_TO_5(req, stCnt_3_5)
    /\ stCnt_3_5' = StCnt_3_TO_5(stCnt_3_5)
    /\ UNCHANGED <<stCnt_0_2, stCnt_6_7, stCnt_8_9>>

calc_CH_6_TO_7 ==
    /\ EnvFrame("env67", 3)
    /\ req' = Req_6_TO_7(req, stCnt_6_7)
    /\ stCnt_6_7' = StCnt_6_TO_7(stCnt_6_7)
    /\ UNCHANGED <<stCnt_0_2, stCnt_3_5, stCnt_8_9>>

calc_CH_8_TO_9 ==
    /\ EnvFrame("env89", 4)
    /\ req' = Req_8_TO_9(req, stCnt_8_9)
    /\ stCnt_8_9' = StCnt_8_TO_9(stCnt_8_9)
    /\ UNCHANGED <<stCnt_0_2, stCnt_3_5, stCnt_6_7>>

\* the record the loop of calc_output_bits() works on
LoopState ==
    [n |-> n, sum |-> sum, outBits |-> outBits, bits |-> bits, reqUsed |-> reqUsed,
     stepCnt |-> stepCnt, owed |-> owed]

\* Spec: one iteration of the loop of calc_output_bits()
OutputStep ==
    /\ pc = "out"
    /\ n \in Channels
    /\ LET st == LoopBody(LoopState, n)
           last == NextN(n) \notin Channels
       IN  /\ sum' = st.sum
           /\ outBits' = st.outBits
           /\ bits' = st.bits
           /\ reqUsed' = st.reqUsed
           /\ stepCnt' = st.stepCnt
           /\ owed' = st.owed
           /\ n' = st.n
           /\ pc' = IF last THEN PcAfter("out", FALSE) ELSE pc
           /\ published' = IF last THEN st.outBits ELSE published
    /\ UNCHANGED <<max, req, stCnt_0_2, stCnt_3_5, stCnt_6_7, stCnt_8_9, intCnt,
                   P1OUT, P2OUT, tick, sinceEnv, gap, envCalls, isrSeen, isrPub,
                   probe>>

Next ==
    \/ Watchdog_Timer
    \/ MainTest
    \/ calc_CH_0_TO_2
    \/ calc_CH_3_TO_5
    \/ calc_CH_6_TO_7
    \/ calc_CH_8_TO_9
    \/ OutputStep

Spec == Init /\ [][Next]_vars

\* ------------------------------------------------------------------------
\* SpecZero: Spec with intCnt starting at 0
\* ------------------------------------------------------------------------
InitZero ==
    /\ InitProg
    /\ InitHist
    /\ probe = NoProbe
    /\ intCnt = 0

SpecZero == InitZero /\ [][Next]_vars

\* ------------------------------------------------------------------------
\* SpecLoop: one action per function call of main()
\* ------------------------------------------------------------------------
\* the ISR serviced while main() waits in LPM0
WakeUp ==
    /\ pc = "lpm0"
    /\ ISRBody

\* a complete call of calc_output_bits()
calc_output_bits ==
    /\ pc = "out"
    /\ n = FirstN
    /\ LET st == LoopFrom(LoopState, FirstN)
       IN  /\ sum' = st.sum
           /\ outBits' = st.outBits
           /\ bits' = st.bits
           /\ reqUsed' = st.reqUsed
           /\ stepCnt' = st.stepCnt
           /\ owed' = st.owed
           /\ n' = st.n
           /\ published' = st.outBits
    /\ pc' = PcAfter("out", FALSE)
    /\ UNCHANGED <<max, req, stCnt_0_2, stCnt_3_5, stCnt_6_7, stCnt_8_9, intCnt,
                   P1OUT, P2OUT, tick, sinceEnv, gap, envCalls, isrSeen, isrPub,
                   probe>>

NextLoop ==
    \/ WakeUp
    \/ MainTest
    \/ calc_CH_0_TO_2
    \/ calc_CH_3_TO_5
    \/ calc_CH_6_TO_7
    \/ calc_CH_8_TO_9
    \/ calc_output_bits

SpecLoop == Init /\ [][NextLoop]_vars

\* ------------------------------------------------------------------------
\* SpecMod: one modulator channel with a constant requested level
\* ------------------------------------------------------------------------
\* one channel of each resolution (channels with the same max[] step alike)
ProbeChannels == {0, 6, 8}

\* k more modulator steps of a channel with resolution m at constant level r,
\* from the record [a, ones]: accumulator and number of 1-bits so far
\* (the k steps are split in halves, and st.ones, never negative, is read
\* first, to keep the evaluation strict and shallow)
RECURSIVE Window(_, _, _, _)
Window(st, r, m, k) ==
    IF k = 0 \/ st.ones < 0 THEN st
    ELSE IF k = 1
      THEN [a |-> ModSum(st.a, r, m), ones |-> st.ones + ModBit(st.a, r, m)]
      ELSE Window(Window(st, r, m, k \div 2), r, m, k - (k \div 2))

\* the inputs: a channel, an accumulator left by a step, a legal level
InitMod ==
    /\ InitProg
    /\ InitHist
    /\ intCnt = 0
    /\ \E c \in ProbeChannels :
         \E a \in 0 .. (init_max[c] - 1) :
           \E r \in 0 .. init_max[c] :
             probe = [ch |-> c, a0 |-> a, r |-> r, w |-> 0, ones |-> 0, a |-> a]

\* max[ch] consecutive steps of the probed channel
RunWindow ==
    /\ probe.w = 0
    /\ LET res == Window([a |-> probe.a0, ones |-> 0], probe.r,
                         max[probe.ch], max[probe.ch])
       IN  probe' = [probe EXCEPT !.w = max[probe.ch], !.ones = res.ones,
                                  !.a = res.a]
    /\ UNCHANGED <<progVars, tick, sinceEnv, gap, envCalls, bits, reqUsed,
                   published, isrSeen, isrPub, stepCnt, owed>>

\* one more step, for windows longer than max[ch]
ExtendWindow ==
    /\ probe.w >= max[probe.ch]
    /\ probe.w < max[probe.ch] + MaxExtraWindow
    /\ LET res == Window([a |-> probe.a, ones |-> probe.ones], probe.r,
                         max[probe.ch], 1)
       IN  probe' = [probe EXCEPT !.w = @ + 1, !.ones = res.ones, !.a = res.a]
    /\ UNCHANGED <<progVars, tick, sinceEnv, gap, envCalls, bits, reqUsed,
                   published, isrSeen, isrPub, stepCnt, owed>>

NextMod ==
    \/ RunWindow
    \/ ExtendWindow

SpecMod == InitMod /\ [][NextMod]_vars

\* ------------------------------------------------------------------------
\* The loop counter alone: if (++intCnt & (1 << LOOP_SPEED)) intCnt = 0;
\* once per loop iteration, from every bit pattern intCnt can start with
\* ------------------------------------------------------------------------
InitCnt ==
    /\ InitProg
    /\ InitHist
    /\ probe = NoProbe
    /\ intCnt \in 0 .. (UINT_MOD - 1)

\* one loop iteration seen from intCnt; tick, sinceEnv and gap are kept as
\* WakeUp and MainTest keep them
CountIteration ==
    /\ intCnt' = NextIntCnt(intCnt)
    /\ tick' = (tick + 1) % TickWrap
    /\ IF EnvelopeDue(intCnt)
         THEN /\ gap' = IF sinceEnv < 0 THEN gap ELSE sinceEnv + 1
              /\ sinceEnv' = 0
         ELSE /\ gap' = gap
              /\ sinceEnv' = IF sinceEnv < 0 THEN sinceEnv ELSE sinceEnv + 1
    /\ UNCHANGED <<max, req, sum, outBits, stCnt_0_2, stCnt_3_5, stCnt_6_7,
                   stCnt_8_9, pc, n, P1OUT, P2OUT, envCalls, bits, reqUsed,
                   published, isrSeen, isrPub, stepCnt, owed, probe>>

NextCnt == CountIteration

SpecCnt == InitCnt /\ [][NextCnt]_vars

\* ========================================================================
\* Properties
\* ========================================================================
\* number of 1-bits of a window of w steps from accumulator a at level r
OnesIn(a, r, m, w) == Window([a |-> a, ones |-> 0], r, m, w).ones

\* C1 (as claimed): over a window of max[n] consecutive steps at a constant
\* level r, from any accumulator a step can leave, exactly r of the emitted
\* bits are 1.
C1_DutyCycleIsLevel ==
    (probe.w = max[probe.ch]) => (probe.ones = probe.r)

\* C2: after every call of calc_output_bits(), in every state of the whole
\* program over a complete envelope cycle, every channel has
\* 0 <= sum[n] < max[n], and the next sum[n] += req[n] stays inside the
\* 16-bit range.
C2_SumBounded ==
    \A c \in Channels :
        /\ sum[c] >= 0
        /\ sum[c] < max[c]
        /\ sum[c] + req[c] < UINT_MOD

\* a pass has just paid down a non-zero accumulator of a channel whose level
\* is strictly inside its range
C2_Witness ==
    /\ pc = "lpm0"
    /\ \E c \in Channels :
         bits[c] = 0 /\ sum[c] > 0 /\ req[c] > 0 /\ req[c] < max[c]

\* the change of level c between two req arrays, as a signed number
ReqDelta(rq, rq2, c) == rq2[c] - rq[c]

\* C3: after init_all_CH_arrays() and after every calc_CH_x_TO_y() call every
\* channel has 0 <= req[n] <= max[n], and the next call of each group changes
\* a level by +INC, -INC or 0 as a number: no += or -= wraps the 8-bit req.
C3_ReqBounded ==
    /\ \A c \in Channels : req[c] >= 0 /\ req[c] <= max[c]
    /\ LET rq02 == Req_0_TO_2(req, stCnt_0_2)
           rq35 == Req_3_TO_5(req, stCnt_3_5)
           rq67 == Req_6_TO_7(req, stCnt_6_7)
           rq89 == Req_8_TO_9(req, stCnt_8_9)
       IN  \A c \in Channels :
             /\ ReqDelta(req, rq02, c) \in {-INC_CH_0_2, 0, INC_CH_0_2}
             /\ ReqDelta(req, rq35, c) \in {-INC_CH_3_5, 0, INC_CH_3_5}
             /\ ReqDelta(req, rq67, c) \in {-INC_CH_6_7, 0, INC_CH_6_7}
             /\ ReqDelta(req, rq89, c) \in {-INC_CH_8_9, 0, INC_CH_8_9}

\* group 0-2 at the end of its second segment: green ramped up to max[1],
\* red ramped down to 0
C3_Witness ==
    /\ stCnt_0_2 = 2 * STEPS_CH_0_2
    /\ req[1] = max[1]
    /\ req[0] = 0
    /\ stCnt_8_9 # init_stCnt_8_9

\* one call of the envelope function of group g on the record [req, st]
EnvCall(e, g) ==
    CASE g = 1 -> [req |-> Req_0_TO_2(e.req, e.st), st |-> StCnt_0_TO_2(e.st)]
      [] g = 2 -> [req |-> Req_3_TO_5(e.req, e.st), st |-> StCnt_3_TO_5(e.st)]
      [] g = 3 -> [req |-> Req_6_TO_7(e.req, e.st), st |-> StCnt_6_TO_7(e.st)]
      [] g = 4 -> [req |-> Req_8_TO_9(e.req, e.st), st |-> StCnt_8_TO_9(e.st)]

\* k calls of the envelope function of group g (split in halves, e.st read
\* first, as in Window)
RECURSIVE EnvCallsOf(_, _, _)
EnvCallsOf(e, g, k) ==
    IF k = 0 \/ e.st < 0 THEN e
    ELSE IF k = 1 THEN EnvCall(e, g)
    ELSE EnvCallsOf(EnvCallsOf(e, g, k \div 2), g, k - (k \div 2))

\* total_segments * STEPS of each group
CycleCalls(g) ==
    CASE g = 1 -> 6 * STEPS_CH_0_2
      [] g = 2 -> 6 * STEPS_CH_3_5
      [] g = 3 -> 4 * STEPS_CH_6_7
      [] g = 4 -> 4 * STEPS_CH_8_9

StCntOf(g) ==
    CASE g = 1 -> stCnt_0_2
      [] g = 2 -> stCnt_3_5
      [] g = 3 -> stCnt_6_7
      [] g = 4 -> stCnt_8_9

Groups == 1 .. 4

\* C4: from every state in which main() is about to call the envelope
\* functions, total_segments * STEPS calls of a group's function (600, 600,
\* 200, 600) bring req[] and the group's stCnt back to the values they had.
C4_EnvelopeClosure ==
    (pc = "env02") =>
        \A g \in Groups :
            EnvCallsOf([req |-> req, st |-> StCntOf(g)], g, CycleCalls(g))
                = [req |-> req, st |-> StCntOf(g)]

\* about to call the envelope functions in the middle of a ramp of every group
C4_Witness ==
    /\ pc = "env02"
    /\ stCnt_0_2 = STEPS_CH_0_2 + 75
    /\ req[0] = MAX_CH_0_2 - 75 * INC_CH_0_2
    /\ req[3] \notin {0, MAX_CH_3_5}
    /\ req[6] \notin {0, MAX_CH_6_7}
    /\ req[8] \notin {0, MAX_CH_8_9}

EnvPositions == {"env02", "env35", "env67", "env89"}
AllCalledOnce == <<1, 1, 1, 1>>

\* C5: in an iteration that runs the envelope functions, calc_output_bits()
\* runs only after all four calls have returned, and every channel the pass
\* has stepped was stepped with the level req[n] holds after the envelope
\* update; no envelope call follows a step of the pass.
C5_EnvelopeBeforeModulation ==
    /\ (pc = "out" /\ sinceEnv = 0) => envCalls = AllCalledOnce
    /\ (pc \in {"out", "lpm0"}) =>
          \A c \in Channels : (c > n) => reqUsed[c] = req[c]
    /\ (pc \in EnvPositions) => n \notin Channels

\* the pass of an envelope iteration has ended and has used a level that the
\* envelope update of the same iteration changed
C5_Witness ==
    /\ pc = "lpm0"
    /\ sinceEnv = 0
    /\ envCalls = AllCalledOnce
    /\ reqUsed = req
    /\ reqUsed[1] = INC_CH_0_2
    /\ stCnt_0_2 = 1

\* C6 (as claimed): two consecutive iterations that run the envelope
\* functions are exactly 2^(LOOP_SPEED+1) = 128 wake-ups apart.
C6_EnvelopeEvery128 ==
    (gap # 0) => (gap = Pow2(LOOP_SPEED + 1))

\* C6 (amended): two consecutive iterations that run the envelope functions
\* are exactly 2^LOOP_SPEED = 64 wake-ups apart.
C6_EnvelopeEvery64 ==
    (gap # 0) => (gap = Pow2(LOOP_SPEED))

\* the second envelope update has run
C6_Witness ==
    /\ gap = Pow2(LOOP_SPEED)
    /\ stCnt_0_2 = 2
    /\ pc = "lpm0"

\* C7: with intCnt starting at 0, the iteration of wake-up t runs the envelope
\* functions if and only if t is a multiple of 2^LOOP_SPEED, and such an
\* iteration calls each of the four functions exactly once (the others call
\* none).
C7_EnvelopeOnMultiplesOf64 ==
    /\ (pc # "test") =>
          IF tick % Pow2(LOOP_SPEED) = 0
            THEN sinceEnv = 0 \/ (sinceEnv = -1 /\ tick = 0 /\ pc = "lpm0")
            ELSE sinceEnv # 0
    /\ (pc \in {"out", "lpm0"}) =>
          envCalls = IF sinceEnv = 0 THEN AllCalledOnce ELSE NoCalls

\* the iteration of wake-up 64 has run all four envelope functions
C7_Witness ==
    /\ tick = Pow2(LOOP_SPEED)
    /\ pc = "lpm0"
    /\ sinceEnv = 0
    /\ envCalls = AllCalledOnce
    /\ stCnt_6_7 = 1

C9_OutBitsLayout ==
    (pc = "lpm0") => \A c \in Channels : Bit(outBits, c) = bits[c]

\* a pass has ended whose bits for channel 0 and channel 9 differ, and bit 0
\* differs from the one of the pass before (now at bit N_CH)
C9_Witness ==
    /\ pc = "lpm0"
    /\ bits[0] # bits[9]
    /\ Bit(outBits, 0) = bits[0]
    /\ Bit(outBits, N_CH) # Bit(outBits, 0)

\* C10 (as claimed): from the same accumulator, over a window of W >= max[n]
\* steps, a higher constant level r2 > r emits at least as many 1-bits.
C10_MonotoneResponse ==
    (probe.w >= max[probe.ch]) =>
        \A r2 \in (probe.r + 1) .. max[probe.ch] :
            OnesIn(probe.a0, r2, max[probe.ch], probe.w) >= probe.ones

\* ------------------------------------------------------------------------
\* C11: channel independence
\* ------------------------------------------------------------------------
\* the loop body of calc_output_bits() applied to the channels in the order
\* of the sequence given
RECURSIVE PassInOrder(_, _)
PassInOrder(st, order) ==
    IF order = <<>> THEN st
    ELSE PassInOrder(LoopBody(st, Head(order)), Tail(order))

\* the order of the code (9 down to 0) and orders permuted from it: the
\* reverse, the rotations and the exchanges of two neighbours
CodeOrder == [i \in 1 .. N_CH |-> N_CH - i]
Ascending == [i \in 1 .. N_CH |-> i - 1]
Swap(order, i, j) == [order EXCEPT ![i] = order[j], ![j] = order[i]]
Rotate(order, k) == [i \in 1 .. N_CH |-> order[((i - 1 + k) % N_CH) + 1]]
Orders ==
    {Ascending}
      \cup {Rotate(CodeOrder, k) : k \in 1 .. (N_CH - 1)}
      \cup {Swap(CodeOrder, i, i + 1) : i \in 1 .. (N_CH - 1)}

\* C11: in the pass about to start, the accumulator and the bit of every
\* channel come out the same whatever the order the channels are stepped in,
\* and the same as stepping that channel alone: they depend on the channel's
\* own sum, req and max only.
C11_ChannelIndependence ==
    (pc = "out" /\ sinceEnv = 0) =>
        LET code == LoopFrom(LoopState, FirstN)
        IN  /\ \A order \in Orders :
                 LET p == PassInOrder(LoopState, order)
                 IN  p.sum = code.sum /\ p.bits = code.bits
            /\ \A c \in Channels :
                 LET one == LoopBody(LoopState, c)
                 IN  /\ one.sum[c] = code.sum[c]
                     /\ one.bits[c] = code.bits[c]
                     /\ \A d \in Channels \ {c} : one.sum[d] = sum[d]

\* a pass is about to start whose ascending order gives another outBits than
\* the order of the code, with accumulators that change and bits that differ
C11_Witness ==
    /\ pc = "out"
    /\ sinceEnv = 0
    /\ LET code == LoopFrom(LoopState, FirstN)
           p    == PassInOrder(LoopState, Ascending)
       IN  /\ p.outBits # code.outBits
           /\ p.sum = code.sum
           /\ p.sum # sum
           /\ p.bits[0] # p.bits[9]
           /\ p.bits[3] # p.bits[6]


\* ------------------------------------------------------------------------
\* C12: one pass per wake-up
\* ------------------------------------------------------------------------
\* main() has been woken at least once
Woken == tick # 0 \/ sinceEnv >= 0 \/ pc # "lpm0"

\* C12: every wake-up of main() is followed by exactly one
\* calc_output_bits() pass that steps each of the 10 channels exactly once,
\* whether or not the envelope functions ran in that loop iteration: back in
\* LPM0 every channel has been stepped once since the wake-up, before the
\* pass none has, and during the pass exactly the channels above n have.
C12_OnePassPerWakeUp ==
    /\ (pc = "lpm0" /\ Woken) => \A c \in Channels : stepCnt[c] = 1
    /\ (pc \in {"test"} \cup EnvPositions) => \A c \in Channels : stepCnt[c] = 0
    /\ (pc = "out") =>
          \A c \in Channels : stepCnt[c] = IF c > n THEN 1 ELSE 0

\* main() is back in LPM0 after the tick that follows an envelope update:
\* that iteration ran no envelope function and stepped every channel once
C12_Witness ==
    /\ pc = "lpm0"
    /\ sinceEnv = 1
    /\ envCalls = NoCalls
    /\ \A c \in Channels : stepCnt[c] = 1


\* ------------------------------------------------------------------------
\* C13: range of the phase counters
\* ------------------------------------------------------------------------
\* C13: every stCnt is in [0, total_segments * STEPS) in every state, the
\* initial offsets included (0..599 for groups 0-2, 3-5 and 8-9, 0..199 for
\* group 6-7), and every call of a group's function advances the group's
\* stCnt by exactly 1, from the last value of the range to 0.
C13_PhaseRange ==
    /\ [](\A g \in Groups : StCntOf(g) \in 0 .. (CycleCalls(g) - 1))
    /\ [][/\ (pc = "env02") => stCnt_0_2' = (stCnt_0_2 + 1) % CycleCalls(1)
          /\ (pc = "env35") => stCnt_3_5' = (stCnt_3_5 + 1) % CycleCalls(2)
          /\ (pc = "env67") => stCnt_6_7' = (stCnt_6_7 + 1) % CycleCalls(3)
          /\ (pc = "env89") => stCnt_8_9' = (stCnt_8_9 + 1) % CycleCalls(4)]_vars

\* calc_CH_6_TO_7() has just wrapped its counter from 199 to 0, in the
\* iteration in which the counters of the other groups moved to 200 and 500
C13_Witness ==
    /\ pc = "env89"
    /\ envCalls[3] = 1
    /\ stCnt_6_7 = 0
    /\ stCnt_0_2 = CycleCalls(3)
    /\ stCnt_3_5 = init_stCnt_3_5 + CycleCalls(3)
    /\ stCnt_8_9 = init_stCnt_8_9 + CycleCalls(3) - 1


\* ------------------------------------------------------------------------
\* C14: one segment, one change per call
\* ------------------------------------------------------------------------
\* the channels each calc_CH_x_TO_y() works on
Members(g) ==
    CASE g = 1 -> 0 .. 2
      [] g = 2 -> 3 .. 5
      [] g = 3 -> 6 .. 7
      [] g = 4 -> 8 .. 9

\* the range tests, out of segs, that hold for the counter value st
SegmentsHit(st, segs, steps) == {k \in 0 .. (segs - 1) : InSeg(st, k, steps)}

\* the channels whose level in rq2 is not the current one
ChangedBy(rq2) == {c \in Channels : rq2[c] # req[c]}

\* rq2 differs from req in at most one channel, one of members, by inc
OneChange(rq2, members, inc) ==
    /\ Cardinality(ChangedBy(rq2)) <= 1
    /\ ChangedBy(rq2) \subseteq members
    /\ \A c \in ChangedBy(rq2) : ReqDelta(req, rq2, c) \in {-inc, inc}

\* C14: whenever main() is at one of the four calls, for the value each
\* phase counter holds exactly one of the range tests of its function holds
\* (the segments tile the cycle without overlap), so the next call of each
\* function changes the level of at most one of its channels, by exactly INC
\* up or down, and leaves the others as they are.
C14_SegmentExclusive ==
    (pc \in EnvPositions) =>
        /\ Cardinality(SegmentsHit(stCnt_0_2, 6, STEPS_CH_0_2)) = 1
        /\ Cardinality(SegmentsHit(stCnt_3_5, 6, STEPS_CH_3_5)) = 1
        /\ Cardinality(SegmentsHit(stCnt_6_7, 4, STEPS_CH_6_7)) = 1
        /\ Cardinality(SegmentsHit(stCnt_8_9, 4, STEPS_CH_8_9)) = 1
        /\ OneChange(Req_0_TO_2(req, stCnt_0_2), Members(1), INC_CH_0_2)
        /\ OneChange(Req_3_TO_5(req, stCnt_3_5), Members(2), INC_CH_3_5)
        /\ OneChange(Req_6_TO_7(req, stCnt_6_7), Members(3), INC_CH_6_7)
        /\ OneChange(Req_8_TO_9(req, stCnt_8_9), Members(4), INC_CH_8_9)

\* group 0-2 on the first counter value of its second segment, green at its
\* maximum: the call about to be made lowers red by INC and changes nothing
\* else
C14_Witness ==
    /\ pc = "env02"
    /\ stCnt_0_2 = STEPS_CH_0_2
    /\ req[1] = max[1]
    /\ ChangedBy(Req_0_TO_2(req, stCnt_0_2)) = {0}
    /\ ReqDelta(req, Req_0_TO_2(req, stCnt_0_2), 0) = -INC_CH_0_2


\* ------------------------------------------------------------------------
\* C15: ownership of the variables
\* ------------------------------------------------------------------------
\* the step leaves the levels of all channels outside group g, and the phase
\* counters of all other groups, as they are
OnlyGroup(g) ==
    /\ \A c \in Channels \ Members(g) : req'[c] = req[c]
    /\ \A h \in Groups \ {g} : StCntOf(h)' = StCntOf(h)

\* C15: on every step max[] stays as initialised; a calc_CH_x_TO_y() call
\* changes req[] of its own group and its own stCnt only and leaves sum[],
\* max[] and outBits alone; calc_output_bits() leaves req[], max[] and every
\* stCnt alone; no other statement writes req[] or a stCnt.
C15_Ownership ==
    /\ [](max = init_max)
    /\ [][/\ max' = max
          /\ (pc = "env02") => OnlyGroup(1) /\ sum' = sum /\ outBits' = outBits
          /\ (pc = "env35") => OnlyGroup(2) /\ sum' = sum /\ outBits' = outBits
          /\ (pc = "env67") => OnlyGroup(3) /\ sum' = sum /\ outBits' = outBits
          /\ (pc = "env89") => OnlyGroup(4) /\ sum' = sum /\ outBits' = outBits
          /\ (pc \notin EnvPositions) =>
                /\ req' = req
                /\ \A h \in Groups : StCntOf(h)' = StCntOf(h)]_vars

\* calc_CH_0_TO_2() and calc_CH_3_TO_5() have changed a level of their own
\* groups, the levels of groups 6-7 and 8-9 are still those before the calls,
\* and the accumulators and outBits are in use
C15_Witness ==
    /\ pc = "env67"
    /\ stCnt_0_2 = STEPS_CH_0_2 + 1
    /\ req[0] = MAX_CH_0_2 - INC_CH_0_2
    /\ req[4] = 0
    /\ req[3] = INC_CH_3_5
    /\ req[6] = MAX_CH_6_7
    /\ envCalls = <<1, 1, 0, 0>>
    /\ outBits # 0
    /\ \E c \in Channels : sum[c] # 0


\* ------------------------------------------------------------------------
\* C16: conservation
\* ------------------------------------------------------------------------
\* owed[n] starts at 0 and every step of channel n adds the level req[n] of
\* that step to it and takes max[n] off it when the step emits a 0-bit, so it
\* is the total of the levels added since start minus max[n] times the number
\* of 0-bits emitted (the two totals grow without bound, their difference is
\* kept).
\* C16: in every state, for every channel, sum[n] equals the total of all
\* req[n] values added since start minus max[n] times the number of steps
\* that emitted 0, also across the ticks on which the envelope changed req[n].
C16_Conservation ==
    \A c \in Channels : sum[c] = owed[c]

\* a pass that followed an envelope update has ended; channel 1, on a level
\* strictly between 0 and max[1], emitted a 0-bit and keeps a remainder,
\* channel 6 emitted a 1-bit
C16_Witness ==
    /\ pc = "lpm0"
    /\ sinceEnv = 0
    /\ req[1] \notin {0, max[1]}
    /\ bits[1] = 0
    /\ owed[1] > 0
    /\ sum[1] = owed[1]
    /\ bits[6] = 1


\* ------------------------------------------------------------------------
\* C17: period of the accumulator
\* ------------------------------------------------------------------------
\* C17: from any accumulator value a with 0 <= a < max[n], after exactly
\* max[n] steps at a constant level r with 0 <= r <= max[n], sum[n] is a
\* again.
C17_AccumulatorPeriod ==
    (probe.w = max[probe.ch]) => probe.a = probe.a0

\* resolution 100 (channel 6), level 25, from accumulator 7: the 100 steps
\* have run, 75 of them emitted a 1-bit, and the accumulator is 7 again
C17_Witness ==
    /\ probe.ch = 6
    /\ probe.r = 25
    /\ probe.a0 = 7
    /\ probe.w = max[6]
    /\ probe.ones = 75
    /\ probe.a = 7


\* ------------------------------------------------------------------------
\* C18: the uninitialised loop counter
\* ------------------------------------------------------------------------
\* C18: whatever 16-bit value intCnt holds when the loop is entered, the
\* first envelope update comes no later than tick 65 (as long as none has
\* come at most 64 iterations have ended), every later update comes exactly
\* 64 ticks after the one before, and from the first update on intCnt is in
\* 0..63 at the end of every loop iteration (main() back in LPM0).
C18_AnyInitialCounter ==
    (pc = "lpm0") =>
        /\ (sinceEnv < 0) => tick <= Pow2(LOOP_SPEED)
        /\ (sinceEnv >= 0) => sinceEnv < Pow2(LOOP_SPEED)
        /\ (gap # 0) => gap = Pow2(LOOP_SPEED)
        /\ (sinceEnv >= 0) => intCnt \in 0 .. (Pow2(LOOP_SPEED) - 1)

\* the latest first update: iteration 65 is the first to update the
\* envelopes (the counter started with its low seven bits at 127) and has
\* reset intCnt
C18_Witness ==
    /\ tick = Pow2(LOOP_SPEED) + 1
    /\ sinceEnv = 0
    /\ gap = 0
    /\ intCnt = 0


====
